---- MODULE Spec2Model ----
(***************************************************************************)
(* SwiftHandoffs.check (monasca_agent/collector/checks_d/swift_handoffs.py) *)
(* as a state machine.  One invocation of check(instance) validates the    *)
(* configuration, loads the ring, inverts ring._replica2part2dev_id into   *)
(* dev2parts, lists the device root, classifies the entries of every       *)
(* device's data directory as primary or handoff, and emits gauges.        *)
(*                                                                         *)
(* Strings the code converts (directory entry names through isdigit/int,   *)
(* the granularity through lower) are sequences of characters, so that the *)
(* conversions are computed.  A character is its Unicode code point: "01"  *)
(* is <<48, 49>>.  The tables of the conversions are those of the Unicode  *)
(* database of the Python 3 runtime (Unicode 14.0).  Other names are TLA+  *)
(* strings.                                                                *)
(***************************************************************************)
EXTENDS Integers, Sequences, FiniteSets, TLC

\* ------------------------------------------------------------------ bounds

\* Largest number of entries in the data directories of the node, all devices
\* together.
MaxEntries == 2

\* ------------------------------------------------------------ input domains

\* Names of the entries under the device root, and device names of the ring.
DevNames == {"sda1", "sdb2"}

\* Entry names that occur in a data directory: "0", "1", "01", "tmp" and the
\* superscript two.
EntryNames ==
    { <<48>>, <<49>>, <<48, 49>>, <<116, 109, 112>>, <<178>> }

\* Replica and partition indexes of the ring, and its device ids.
Replicas == {0, 1}
Parts == {0, 1}
DevIds == {0, 1}

\* ring.devs of two devices with distinct names, and of two devices (of
\* different nodes) that carry the same name.
DistinctDevs == [id \in DevIds |-> [device |-> IF id = 0 THEN "sda1" ELSE "sdb2"]]
SameNameDevs == [id \in DevIds |-> [device |-> "sda1"]]

\* The rings considered: every assignment of the replicas to two devices of
\* distinct names, up to exchanging the two devices (replica 0 of partition
\* 0 is on device 0), and the ring of two nodes with a device of the same
\* name where replica r of every partition is on device r.
Rings ==
    { [devs |-> DistinctDevs, replica2part2dev_id |-> t] :
        t \in { u \in [Replicas -> [Parts -> DevIds]] : u[0][0] = 0 } }
    \cup { [devs |-> SameNameDevs,
            replica2part2dev_id |-> [r \in Replicas |-> [p \in Parts |-> r]]] }

NoRing == [devs |-> <<>>, replica2part2dev_id |-> <<>>]

\* A value of the instance dictionary: a string, a value that is no string
\* (a YAML number or null), or the key being absent.
Str(s) == [kind |-> "str", val |-> s]
NonString == [kind |-> "other", val |-> <<>>]
Absent == [kind |-> "absent", val |-> <<>>]

\* 'server', 'device', 'drive', 'SERver', and 'SERVER' spelt with U+00C9,
\* the capital E with acute.
ServerStr == <<115, 101, 114, 118, 101, 114>>
DeviceStr == <<100, 101, 118, 105, 99, 101>>
DriveStr == <<100, 114, 105, 118, 101>>
MixedServerStr == <<83, 69, 82, 118, 101, 114>>
AccentServerStr == <<83, 201, 82, 86, 69, 82>>

\* 'device', 'drive', 'SERver', the accented spelling, a non-string, and no
\* granularity key (which instance.get turns into 'server').
GranularityValues ==
    { Str(DeviceStr), Str(DriveStr), Str(MixedServerStr), Str(AccentServerStr),
      NonString, Absent }

\* The tags the calling framework supplies for the instance.
CallerTags == [service |-> "object-storage"]

\* What os.listdir(parts_dir) does for one entry of the device root.
Subsets(S, n) == { x \in SUBSET S : Cardinality(x) <= n }

ListOutcomes ==
    { [kind |-> "ENOENT", entries |-> {}], [kind |-> "EOTHER", entries |-> {}] }
    \cup { [kind |-> "ok", entries |-> e] : e \in Subsets(EntryNames, MaxEntries) }

EmptyDisk == [d \in {} |-> [kind |-> "ENOENT", entries |-> {}]]

\* Every order in which a listing can return the set S.
Perms(S) ==
    { s \in [1..Cardinality(S) -> S] : \A x \in S : \E i \in DOMAIN s : s[i] = x }

\* ----------------------------------------------------------- pure functions

\* The code points of the digit zero of every run of ten decimal digits
\* (Unicode 14.0, category Nd): zero + v is the digit of value v.
DecimalZeros ==
    << 48, 1632, 1776, 1984, 2406, 2534, 2662, 2790, 2918, 3046, 3174, 3302,
       3430, 3558, 3664, 3792, 3872, 4160, 4240, 6112, 6160, 6470, 6608,
       6784, 6800, 6992, 7088, 7232, 7248, 42528, 43216, 43264, 43472, 43504,
       43600, 44016, 65296, 66720, 68912, 69734, 69872, 69942, 70096, 70384,
       70736, 70864, 71248, 71360, 71472, 71904, 72016, 72784, 73040, 73120,
       92768, 92864, 93008, 120782, 120792, 120802, 120812, 120822, 123200,
       123632, 125264, 130032 >>

\* The ranges of the characters of Numeric_Type Digit that are no decimal
\* digits (superscripts, subscripts, circled digits, ...): str.isdigit accepts
\* them, int does not.
OtherDigitRanges ==
    << <<178, 179>>, <<185, 185>>, <<4969, 4977>>, <<6618, 6618>>,
       <<8304, 8304>>, <<8308, 8313>>, <<8320, 8329>>, <<9312, 9320>>,
       <<9332, 9340>>, <<9352, 9360>>, <<9450, 9450>>, <<9461, 9469>>,
       <<9471, 9471>>, <<10102, 10110>>, <<10112, 10120>>, <<10122, 10130>>,
       <<68160, 68163>>, <<69216, 69224>>, <<69714, 69722>>,
       <<127232, 127242>> >>

\* The tables are sorted by code point and their ranges do not overlap. The
\* index, among lo..hi, of the last range of rs that starts at or before c;
\* lo - 1 when every range starts after c.
RECURSIVE FindRange(_, _, _, _)
FindRange(c, rs, lo, hi) ==
    IF lo > hi THEN hi
    ELSE LET mid == (lo + hi) \div 2
         IN IF rs[mid][1] <= c THEN FindRange(c, rs, mid + 1, hi)
            ELSE FindRange(c, rs, lo, mid - 1)

\* c is in one of the ranges <<first, last>>.
InRanges(c, rs) ==
    LET i == FindRange(c, rs, 1, Len(rs))
    IN i >= 1 /\ c <= rs[i][2]

\* The runs of ten decimal digits as ranges <<zero, nine>>.
DecimalRanges ==
    [i \in DOMAIN DecimalZeros |-> << DecimalZeros[i], DecimalZeros[i] + 9 >>]

\* c is a decimal digit, a character int accepts.
IsDecimalChar(c) == InRanges(c, DecimalRanges)

\* c is a character str.isdigit accepts.
IsDigitChar(c) == IsDecimalChar(c) \/ InRanges(c, OtherDigitRanges)

\* str.isdigit: the name is not empty and every character is a digit.
IsDigit(name) == Len(name) > 0 /\ \A i \in DOMAIN name : IsDigitChar(name[i])

\* The value of a decimal digit.
DigitVal(c) == c - DecimalZeros[FindRange(c, DecimalRanges, 1, Len(DecimalZeros))]

\* int(part) of a name that isdigit accepts raises ValueError: a character of
\* the name is no decimal digit.
IntRaises(name) == \E i \in DOMAIN name : ~IsDecimalChar(name[i])

\* int(part) of a name of decimal digits.
RECURSIVE ToInt(_)
ToInt(name) ==
    IF Len(name) = 0 THEN 0
    ELSE 10 * ToInt(SubSeq(name, 1, Len(name) - 1)) + DigitVal(name[Len(name)])

\* The simple lower-case mappings: <<first, last, stride, delta>> maps every
\* stride-th character c of first..last to c + delta.
LowerRanges ==
    << <<65, 90, 1, 32>>, <<192, 214, 1, 32>>, <<216, 222, 1, 32>>,
       <<256, 302, 2, 1>>, <<306, 310, 2, 1>>, <<313, 327, 2, 1>>,
       <<330, 374, 2, 1>>, <<376, 376, 1, -121>>, <<377, 381, 2, 1>>,
       <<385, 385, 1, 210>>, <<386, 388, 2, 1>>, <<390, 390, 1, 206>>,
       <<391, 391, 1, 1>>, <<393, 394, 1, 205>>, <<395, 395, 1, 1>>,
       <<398, 398, 1, 79>>, <<399, 399, 1, 202>>, <<400, 400, 1, 203>>,
       <<401, 401, 1, 1>>, <<403, 403, 1, 205>>, <<404, 404, 1, 207>>,
       <<406, 406, 1, 211>>, <<407, 407, 1, 209>>, <<408, 408, 1, 1>>,
       <<412, 412, 1, 211>>, <<413, 413, 1, 213>>, <<415, 415, 1, 214>>,
       <<416, 420, 2, 1>>, <<422, 422, 1, 218>>, <<423, 423, 1, 1>>,
       <<425, 425, 1, 218>>, <<428, 428, 1, 1>>, <<430, 430, 1, 218>>,
       <<431, 431, 1, 1>>, <<433, 434, 1, 217>>, <<435, 437, 2, 1>>,
       <<439, 439, 1, 219>>, <<440, 440, 1, 1>>, <<444, 444, 1, 1>>,
       <<452, 452, 1, 2>>, <<453, 453, 1, 1>>, <<455, 455, 1, 2>>,
       <<456, 456, 1, 1>>, <<458, 458, 1, 2>>, <<459, 475, 2, 1>>,
       <<478, 494, 2, 1>>, <<497, 497, 1, 2>>, <<498, 500, 2, 1>>,
       <<502, 502, 1, -97>>, <<503, 503, 1, -56>>, <<504, 542, 2, 1>>,
       <<544, 544, 1, -130>>, <<546, 562, 2, 1>>, <<570, 570, 1, 10795>>,
       <<571, 571, 1, 1>>, <<573, 573, 1, -163>>, <<574, 574, 1, 10792>>,
       <<577, 577, 1, 1>>, <<579, 579, 1, -195>>, <<580, 580, 1, 69>>,
       <<581, 581, 1, 71>>, <<582, 590, 2, 1>>, <<880, 882, 2, 1>>,
       <<886, 886, 1, 1>>, <<895, 895, 1, 116>>, <<902, 902, 1, 38>>,
       <<904, 906, 1, 37>>, <<908, 908, 1, 64>>, <<910, 911, 1, 63>>,
       <<913, 929, 1, 32>>, <<931, 939, 1, 32>>, <<975, 975, 1, 8>>,
       <<984, 1006, 2, 1>>, <<1012, 1012, 1, -60>>, <<1015, 1015, 1, 1>>,
       <<1017, 1017, 1, -7>>, <<1018, 1018, 1, 1>>, <<1021, 1023, 1, -130>>,
       <<1024, 1039, 1, 80>>, <<1040, 1071, 1, 32>>, <<1120, 1152, 2, 1>>,
       <<1162, 1214, 2, 1>>, <<1216, 1216, 1, 15>>, <<1217, 1229, 2, 1>>,
       <<1232, 1326, 2, 1>>, <<1329, 1366, 1, 48>>, <<4256, 4293, 1, 7264>>,
       <<4295, 4295, 1, 7264>>, <<4301, 4301, 1, 7264>>,
       <<5024, 5103, 1, 38864>>, <<5104, 5109, 1, 8>>,
       <<7312, 7354, 1, -3008>>, <<7357, 7359, 1, -3008>>,
       <<7680, 7828, 2, 1>>, <<7838, 7838, 1, -7615>>, <<7840, 7934, 2, 1>>,
       <<7944, 7951, 1, -8>>, <<7960, 7965, 1, -8>>, <<7976, 7983, 1, -8>>,
       <<7992, 7999, 1, -8>>, <<8008, 8013, 1, -8>>, <<8025, 8031, 2, -8>>,
       <<8040, 8047, 1, -8>>, <<8072, 8079, 1, -8>>, <<8088, 8095, 1, -8>>,
       <<8104, 8111, 1, -8>>, <<8120, 8121, 1, -8>>, <<8122, 8123, 1, -74>>,
       <<8124, 8124, 1, -9>>, <<8136, 8139, 1, -86>>, <<8140, 8140, 1, -9>>,
       <<8152, 8153, 1, -8>>, <<8154, 8155, 1, -100>>, <<8168, 8169, 1, -8>>,
       <<8170, 8171, 1, -112>>, <<8172, 8172, 1, -7>>,
       <<8184, 8185, 1, -128>>, <<8186, 8187, 1, -126>>,
       <<8188, 8188, 1, -9>>, <<8486, 8486, 1, -7517>>,
       <<8490, 8490, 1, -8383>>, <<8491, 8491, 1, -8262>>,
       <<8498, 8498, 1, 28>>, <<8544, 8559, 1, 16>>, <<8579, 8579, 1, 1>>,
       <<9398, 9423, 1, 26>>, <<11264, 11311, 1, 48>>,
       <<11360, 11360, 1, 1>>, <<11362, 11362, 1, -10743>>,
       <<11363, 11363, 1, -3814>>, <<11364, 11364, 1, -10727>>,
       <<11367, 11371, 2, 1>>, <<11373, 11373, 1, -10780>>,
       <<11374, 11374, 1, -10749>>, <<11375, 11375, 1, -10783>>,
       <<11376, 11376, 1, -10782>>, <<11378, 11378, 1, 1>>,
       <<11381, 11381, 1, 1>>, <<11390, 11391, 1, -10815>>,
       <<11392, 11490, 2, 1>>, <<11499, 11501, 2, 1>>,
       <<11506, 11506, 1, 1>>, <<42560, 42604, 2, 1>>,
       <<42624, 42650, 2, 1>>, <<42786, 42798, 2, 1>>,
       <<42802, 42862, 2, 1>>, <<42873, 42875, 2, 1>>,
       <<42877, 42877, 1, -35332>>, <<42878, 42886, 2, 1>>,
       <<42891, 42891, 1, 1>>, <<42893, 42893, 1, -42280>>,
       <<42896, 42898, 2, 1>>, <<42902, 42920, 2, 1>>,
       <<42922, 42922, 1, -42308>>, <<42923, 42923, 1, -42319>>,
       <<42924, 42924, 1, -42315>>, <<42925, 42925, 1, -42305>>,
       <<42926, 42926, 1, -42308>>, <<42928, 42928, 1, -42258>>,
       <<42929, 42929, 1, -42282>>, <<42930, 42930, 1, -42261>>,
       <<42931, 42931, 1, 928>>, <<42932, 42946, 2, 1>>,
       <<42948, 42948, 1, -48>>, <<42949, 42949, 1, -42307>>,
       <<42950, 42950, 1, -35384>>, <<42951, 42953, 2, 1>>,
       <<42960, 42960, 1, 1>>, <<42966, 42968, 2, 1>>,
       <<42997, 42997, 1, 1>>, <<65313, 65338, 1, 32>>,
       <<66560, 66599, 1, 40>>, <<66736, 66771, 1, 40>>,
       <<66928, 66938, 1, 39>>, <<66940, 66954, 1, 39>>,
       <<66956, 66962, 1, 39>>, <<66964, 66965, 1, 39>>,
       <<68736, 68786, 1, 64>>, <<71840, 71871, 1, 32>>,
       <<93760, 93791, 1, 32>>, <<125184, 125217, 1, 34>> >>

\* The ranges of the cased characters that are not case-ignorable.
CasedRanges ==
    << <<65, 90>>, <<97, 122>>, <<170, 170>>, <<181, 181>>, <<186, 186>>,
       <<192, 214>>, <<216, 246>>, <<248, 442>>, <<444, 447>>, <<452, 659>>,
       <<661, 687>>, <<880, 883>>, <<886, 887>>, <<891, 893>>, <<895, 895>>,
       <<902, 902>>, <<904, 906>>, <<908, 908>>, <<910, 929>>, <<931, 1013>>,
       <<1015, 1153>>, <<1162, 1327>>, <<1329, 1366>>, <<1376, 1416>>,
       <<4256, 4293>>, <<4295, 4295>>, <<4301, 4301>>, <<4304, 4346>>,
       <<4349, 4351>>, <<5024, 5109>>, <<5112, 5117>>, <<7296, 7304>>,
       <<7312, 7354>>, <<7357, 7359>>, <<7424, 7467>>, <<7531, 7543>>,
       <<7545, 7578>>, <<7680, 7957>>, <<7960, 7965>>, <<7968, 8005>>,
       <<8008, 8013>>, <<8016, 8023>>, <<8025, 8025>>, <<8027, 8027>>,
       <<8029, 8029>>, <<8031, 8061>>, <<8064, 8116>>, <<8118, 8124>>,
       <<8126, 8126>>, <<8130, 8132>>, <<8134, 8140>>, <<8144, 8147>>,
       <<8150, 8155>>, <<8160, 8172>>, <<8178, 8180>>, <<8182, 8188>>,
       <<8450, 8450>>, <<8455, 8455>>, <<8458, 8467>>, <<8469, 8469>>,
       <<8473, 8477>>, <<8484, 8484>>, <<8486, 8486>>, <<8488, 8488>>,
       <<8490, 8493>>, <<8495, 8500>>, <<8505, 8505>>, <<8508, 8511>>,
       <<8517, 8521>>, <<8526, 8526>>, <<8544, 8575>>, <<8579, 8580>>,
       <<9398, 9449>>, <<11264, 11387>>, <<11390, 11492>>, <<11499, 11502>>,
       <<11506, 11507>>, <<11520, 11557>>, <<11559, 11559>>,
       <<11565, 11565>>, <<42560, 42605>>, <<42624, 42651>>,
       <<42786, 42863>>, <<42865, 42887>>, <<42891, 42894>>,
       <<42896, 42954>>, <<42960, 42961>>, <<42963, 42963>>,
       <<42965, 42969>>, <<42997, 42998>>, <<43002, 43002>>,
       <<43824, 43866>>, <<43872, 43880>>, <<43888, 43967>>,
       <<64256, 64262>>, <<64275, 64279>>, <<65313, 65338>>,
       <<65345, 65370>>, <<66560, 66639>>, <<66736, 66771>>,
       <<66776, 66811>>, <<66928, 66938>>, <<66940, 66954>>,
       <<66956, 66962>>, <<66964, 66965>>, <<66967, 66977>>,
       <<66979, 66993>>, <<66995, 67001>>, <<67003, 67004>>,
       <<68736, 68786>>, <<68800, 68850>>, <<71840, 71903>>,
       <<93760, 93823>>, <<119808, 119892>>, <<119894, 119964>>,
       <<119966, 119967>>, <<119970, 119970>>, <<119973, 119974>>,
       <<119977, 119980>>, <<119982, 119993>>, <<119995, 119995>>,
       <<119997, 120003>>, <<120005, 120069>>, <<120071, 120074>>,
       <<120077, 120084>>, <<120086, 120092>>, <<120094, 120121>>,
       <<120123, 120126>>, <<120128, 120132>>, <<120134, 120134>>,
       <<120138, 120144>>, <<120146, 120485>>, <<120488, 120512>>,
       <<120514, 120538>>, <<120540, 120570>>, <<120572, 120596>>,
       <<120598, 120628>>, <<120630, 120654>>, <<120656, 120686>>,
       <<120688, 120712>>, <<120714, 120744>>, <<120746, 120770>>,
       <<120772, 120779>>, <<122624, 122633>>, <<122635, 122654>>,
       <<125184, 125251>>, <<127280, 127305>>, <<127312, 127337>>,
       <<127344, 127369>> >>

\* The ranges of the case-ignorable characters.
CaseIgnorableRanges ==
    << <<39, 39>>, <<46, 46>>, <<58, 58>>, <<94, 94>>, <<96, 96>>,
       <<168, 168>>, <<173, 173>>, <<175, 175>>, <<180, 180>>, <<183, 184>>,
       <<688, 879>>, <<884, 885>>, <<890, 890>>, <<900, 901>>, <<903, 903>>,
       <<1155, 1161>>, <<1369, 1369>>, <<1375, 1375>>, <<1425, 1469>>,
       <<1471, 1471>>, <<1473, 1474>>, <<1476, 1477>>, <<1479, 1479>>,
       <<1524, 1524>>, <<1536, 1541>>, <<1552, 1562>>, <<1564, 1564>>,
       <<1600, 1600>>, <<1611, 1631>>, <<1648, 1648>>, <<1750, 1757>>,
       <<1759, 1768>>, <<1770, 1773>>, <<1807, 1807>>, <<1809, 1809>>,
       <<1840, 1866>>, <<1958, 1968>>, <<2027, 2037>>, <<2042, 2042>>,
       <<2045, 2045>>, <<2070, 2093>>, <<2137, 2139>>, <<2184, 2184>>,
       <<2192, 2193>>, <<2200, 2207>>, <<2249, 2306>>, <<2362, 2362>>,
       <<2364, 2364>>, <<2369, 2376>>, <<2381, 2381>>, <<2385, 2391>>,
       <<2402, 2403>>, <<2417, 2417>>, <<2433, 2433>>, <<2492, 2492>>,
       <<2497, 2500>>, <<2509, 2509>>, <<2530, 2531>>, <<2558, 2558>>,
       <<2561, 2562>>, <<2620, 2620>>, <<2625, 2626>>, <<2631, 2632>>,
       <<2635, 2637>>, <<2641, 2641>>, <<2672, 2673>>, <<2677, 2677>>,
       <<2689, 2690>>, <<2748, 2748>>, <<2753, 2757>>, <<2759, 2760>>,
       <<2765, 2765>>, <<2786, 2787>>, <<2810, 2815>>, <<2817, 2817>>,
       <<2876, 2876>>, <<2879, 2879>>, <<2881, 2884>>, <<2893, 2893>>,
       <<2901, 2902>>, <<2914, 2915>>, <<2946, 2946>>, <<3008, 3008>>,
       <<3021, 3021>>, <<3072, 3072>>, <<3076, 3076>>, <<3132, 3132>>,
       <<3134, 3136>>, <<3142, 3144>>, <<3146, 3149>>, <<3157, 3158>>,
       <<3170, 3171>>, <<3201, 3201>>, <<3260, 3260>>, <<3263, 3263>>,
       <<3270, 3270>>, <<3276, 3277>>, <<3298, 3299>>, <<3328, 3329>>,
       <<3387, 3388>>, <<3393, 3396>>, <<3405, 3405>>, <<3426, 3427>>,
       <<3457, 3457>>, <<3530, 3530>>, <<3538, 3540>>, <<3542, 3542>>,
       <<3633, 3633>>, <<3636, 3642>>, <<3654, 3662>>, <<3761, 3761>>,
       <<3764, 3772>>, <<3782, 3782>>, <<3784, 3789>>, <<3864, 3865>>,
       <<3893, 3893>>, <<3895, 3895>>, <<3897, 3897>>, <<3953, 3966>>,
       <<3968, 3972>>, <<3974, 3975>>, <<3981, 3991>>, <<3993, 4028>>,
       <<4038, 4038>>, <<4141, 4144>>, <<4146, 4151>>, <<4153, 4154>>,
       <<4157, 4158>>, <<4184, 4185>>, <<4190, 4192>>, <<4209, 4212>>,
       <<4226, 4226>>, <<4229, 4230>>, <<4237, 4237>>, <<4253, 4253>>,
       <<4348, 4348>>, <<4957, 4959>>, <<5906, 5908>>, <<5938, 5939>>,
       <<5970, 5971>>, <<6002, 6003>>, <<6068, 6069>>, <<6071, 6077>>,
       <<6086, 6086>>, <<6089, 6099>>, <<6103, 6103>>, <<6109, 6109>>,
       <<6155, 6159>>, <<6211, 6211>>, <<6277, 6278>>, <<6313, 6313>>,
       <<6432, 6434>>, <<6439, 6440>>, <<6450, 6450>>, <<6457, 6459>>,
       <<6679, 6680>>, <<6683, 6683>>, <<6742, 6742>>, <<6744, 6750>>,
       <<6752, 6752>>, <<6754, 6754>>, <<6757, 6764>>, <<6771, 6780>>,
       <<6783, 6783>>, <<6823, 6823>>, <<6832, 6862>>, <<6912, 6915>>,
       <<6964, 6964>>, <<6966, 6970>>, <<6972, 6972>>, <<6978, 6978>>,
       <<7019, 7027>>, <<7040, 7041>>, <<7074, 7077>>, <<7080, 7081>>,
       <<7083, 7085>>, <<7142, 7142>>, <<7144, 7145>>, <<7149, 7149>>,
       <<7151, 7153>>, <<7212, 7219>>, <<7222, 7223>>, <<7288, 7293>>,
       <<7376, 7378>>, <<7380, 7392>>, <<7394, 7400>>, <<7405, 7405>>,
       <<7412, 7412>>, <<7416, 7417>>, <<7468, 7530>>, <<7544, 7544>>,
       <<7579, 7679>>, <<8125, 8125>>, <<8127, 8129>>, <<8141, 8143>>,
       <<8157, 8159>>, <<8173, 8175>>, <<8189, 8190>>, <<8203, 8207>>,
       <<8216, 8217>>, <<8228, 8228>>, <<8231, 8231>>, <<8234, 8238>>,
       <<8288, 8292>>, <<8294, 8303>>, <<8305, 8305>>, <<8319, 8319>>,
       <<8336, 8348>>, <<8400, 8432>>, <<11388, 11389>>, <<11503, 11505>>,
       <<11631, 11631>>, <<11647, 11647>>, <<11744, 11775>>,
       <<11823, 11823>>, <<12293, 12293>>, <<12330, 12333>>,
       <<12337, 12341>>, <<12347, 12347>>, <<12441, 12446>>,
       <<12540, 12542>>, <<40981, 40981>>, <<42232, 42237>>,
       <<42508, 42508>>, <<42607, 42610>>, <<42612, 42621>>,
       <<42623, 42623>>, <<42652, 42655>>, <<42736, 42737>>,
       <<42752, 42785>>, <<42864, 42864>>, <<42888, 42890>>,
       <<42994, 42996>>, <<43000, 43001>>, <<43010, 43010>>,
       <<43014, 43014>>, <<43019, 43019>>, <<43045, 43046>>,
       <<43052, 43052>>, <<43204, 43205>>, <<43232, 43249>>,
       <<43263, 43263>>, <<43302, 43309>>, <<43335, 43345>>,
       <<43392, 43394>>, <<43443, 43443>>, <<43446, 43449>>,
       <<43452, 43453>>, <<43471, 43471>>, <<43493, 43494>>,
       <<43561, 43566>>, <<43569, 43570>>, <<43573, 43574>>,
       <<43587, 43587>>, <<43596, 43596>>, <<43632, 43632>>,
       <<43644, 43644>>, <<43696, 43696>>, <<43698, 43700>>,
       <<43703, 43704>>, <<43710, 43711>>, <<43713, 43713>>,
       <<43741, 43741>>, <<43756, 43757>>, <<43763, 43764>>,
       <<43766, 43766>>, <<43867, 43871>>, <<43881, 43883>>,
       <<44005, 44005>>, <<44008, 44008>>, <<44013, 44013>>,
       <<64286, 64286>>, <<64434, 64450>>, <<65024, 65039>>,
       <<65043, 65043>>, <<65056, 65071>>, <<65106, 65106>>,
       <<65109, 65109>>, <<65279, 65279>>, <<65287, 65287>>,
       <<65294, 65294>>, <<65306, 65306>>, <<65342, 65342>>,
       <<65344, 65344>>, <<65392, 65392>>, <<65438, 65439>>,
       <<65507, 65507>>, <<65529, 65531>>, <<66045, 66045>>,
       <<66272, 66272>>, <<66422, 66426>>, <<67456, 67461>>,
       <<67463, 67504>>, <<67506, 67514>>, <<68097, 68099>>,
       <<68101, 68102>>, <<68108, 68111>>, <<68152, 68154>>,
       <<68159, 68159>>, <<68325, 68326>>, <<68900, 68903>>,
       <<69291, 69292>>, <<69446, 69456>>, <<69506, 69509>>,
       <<69633, 69633>>, <<69688, 69702>>, <<69744, 69744>>,
       <<69747, 69748>>, <<69759, 69761>>, <<69811, 69814>>,
       <<69817, 69818>>, <<69821, 69821>>, <<69826, 69826>>,
       <<69837, 69837>>, <<69888, 69890>>, <<69927, 69931>>,
       <<69933, 69940>>, <<70003, 70003>>, <<70016, 70017>>,
       <<70070, 70078>>, <<70089, 70092>>, <<70095, 70095>>,
       <<70191, 70193>>, <<70196, 70196>>, <<70198, 70199>>,
       <<70206, 70206>>, <<70367, 70367>>, <<70371, 70378>>,
       <<70400, 70401>>, <<70459, 70460>>, <<70464, 70464>>,
       <<70502, 70508>>, <<70512, 70516>>, <<70712, 70719>>,
       <<70722, 70724>>, <<70726, 70726>>, <<70750, 70750>>,
       <<70835, 70840>>, <<70842, 70842>>, <<70847, 70848>>,
       <<70850, 70851>>, <<71090, 71093>>, <<71100, 71101>>,
       <<71103, 71104>>, <<71132, 71133>>, <<71219, 71226>>,
       <<71229, 71229>>, <<71231, 71232>>, <<71339, 71339>>,
       <<71341, 71341>>, <<71344, 71349>>, <<71351, 71351>>,
       <<71453, 71455>>, <<71458, 71461>>, <<71463, 71467>>,
       <<71727, 71735>>, <<71737, 71738>>, <<71995, 71996>>,
       <<71998, 71998>>, <<72003, 72003>>, <<72148, 72151>>,
       <<72154, 72155>>, <<72160, 72160>>, <<72193, 72202>>,
       <<72243, 72248>>, <<72251, 72254>>, <<72263, 72263>>,
       <<72273, 72278>>, <<72281, 72283>>, <<72330, 72342>>,
       <<72344, 72345>>, <<72752, 72758>>, <<72760, 72765>>,
       <<72767, 72767>>, <<72850, 72871>>, <<72874, 72880>>,
       <<72882, 72883>>, <<72885, 72886>>, <<73009, 73014>>,
       <<73018, 73018>>, <<73020, 73021>>, <<73023, 73029>>,
       <<73031, 73031>>, <<73104, 73105>>, <<73109, 73109>>,
       <<73111, 73111>>, <<73459, 73460>>, <<78896, 78904>>,
       <<92912, 92916>>, <<92976, 92982>>, <<92992, 92995>>,
       <<94031, 94031>>, <<94095, 94111>>, <<94176, 94177>>,
       <<94179, 94180>>, <<110576, 110579>>, <<110581, 110587>>,
       <<110589, 110590>>, <<113821, 113822>>, <<113824, 113827>>,
       <<118528, 118573>>, <<118576, 118598>>, <<119143, 119145>>,
       <<119155, 119170>>, <<119173, 119179>>, <<119210, 119213>>,
       <<119362, 119364>>, <<121344, 121398>>, <<121403, 121452>>,
       <<121461, 121461>>, <<121476, 121476>>, <<121499, 121503>>,
       <<121505, 121519>>, <<122880, 122886>>, <<122888, 122904>>,
       <<122907, 122913>>, <<122915, 122916>>, <<122918, 122922>>,
       <<123184, 123197>>, <<123566, 123566>>, <<123628, 123631>>,
       <<125136, 125142>>, <<125252, 125259>>, <<127995, 127999>>,
       <<917505, 917505>>, <<917536, 917631>>, <<917760, 917999>> >>

\* The lower-case mapping of a character that maps to one character.
LowerChar(c) ==
    LET i == FindRange(c, LowerRanges, 1, Len(LowerRanges))
    IN IF /\ i >= 1
          /\ c <= LowerRanges[i][2]
          /\ (c - LowerRanges[i][1]) % LowerRanges[i][3] = 0
       THEN c + LowerRanges[i][4]
       ELSE c

Cased(c) == InRanges(c, CasedRanges)
CaseIgnorable(c) == InRanges(c, CaseIgnorableRanges)

\* The capital sigma at position i is final: the nearest character before it
\* that is not case-ignorable is cased, and the nearest such character after
\* it, if any, is not cased.
FinalSigma(s, i) ==
    LET before == { j \in 1..(i - 1) : ~CaseIgnorable(s[j]) }
        after == { j \in (i + 1)..Len(s) : ~CaseIgnorable(s[j]) }
    IN /\ before # {}
       /\ Cased(s[CHOOSE j \in before : \A k \in before : k <= j])
       /\ after # {} => ~Cased(s[CHOOSE j \in after : \A k \in after : j <= k])

\* What position i of s becomes: the capital sigma (931) depends on its
\* context, the dotted capital I (304) becomes two characters.
LowerAt(s, i) ==
    IF s[i] = 931 THEN (IF FinalSigma(s, i) THEN << 962 >> ELSE << 963 >>)
    ELSE IF s[i] = 304 THEN << 105, 775 >>
    ELSE << LowerChar(s[i]) >>

\* str.lower, from position i on.
RECURSIVE LowerFrom(_, _)
LowerFrom(s, i) == IF i > Len(s) THEN << >> ELSE LowerAt(s, i) \o LowerFrom(s, i + 1)

Lower(s) == LowerFrom(s, 1)

\* instance.get(key, default)
InstanceGet(inst, key, default) ==
    IF inst[key].kind = "absent" THEN default ELSE inst[key]

\* collections.defaultdict: a function whose domain is the keys touched so far.
EmptyDict == [k \in {} |-> 0]

DictGet(d, k, default) == IF k \in DOMAIN d THEN d[k] ELSE default

DictSet(d, k, v) == [x \in DOMAIN d \cup {k} |-> IF x = k THEN v ELSE d[x]]

\* ring_name and datadir of the default ring path /etc/swift/object.ring.gz.
RingName == "object"
DataDir == "objects"


\* ------------------------------------------------------------------- state

VARIABLES
    device_root,    \* kind of the path instance['devices']: missing, file, dir
    ring_path,      \* kind of the path instance['ring']: missing, dir, file
    ring_file,      \* the ring that Ring(ring_path) loads
    disk,           \* entry of the device root -> outcome of listing its data dir
    instance,       \* the instance dictionary check is called with
    pc,             \* position of the current invocation
    raised,         \* the exception that left check, "" when none
    granularity, dev2parts, primary_count, handoffs, device_dirs, idx,
                    \* locals of check; idx is the position of the device loop
    ring_loaded,    \* Ring(path) was called in this invocation
    listed,         \* the parts_dir listings made in this invocation
    log,            \* error-level messages of this invocation
    gauges,         \* gauge calls of this invocation
    prev            \* what the previous invocation left

env == << device_root, ring_path, ring_file, disk, instance >>
locals == << granularity, dev2parts, primary_count, handoffs, device_dirs, idx >>
outputs == << ring_loaded, listed, log, gauges >>
vars == << env, pc, raised, locals, outputs, prev >>

\* ------------------------------------------------- the steps of check, pure

\* os.path.exists / os.path.isdir / os.path.isfile of a path of a given kind.
Exists(kind) == kind # "missing"
IsDir(kind) == kind = "dir"
IsFile(kind) == kind = "file"

\* dev2parts = defaultdict(set)
NewDev2Parts == EmptyDict

\* The key under which a ring device's partitions are collected.
IndexKey(dev) == dev["device"]

\* The inner loop of the index builder, from partition `part` on:
\*   for part, device_id in enumerate(part2dev):
\*       dev2parts[ring.devs[device_id]['device']].add(part)
RECURSIVE AddParts(_, _, _, _)
AddParts(d2p, devs, part2dev, part) ==
    IF part \notin DOMAIN part2dev THEN d2p
    ELSE LET key == IndexKey(devs[part2dev[part]])
         IN AddParts(DictSet(d2p, key, DictGet(d2p, key, {}) \cup {part}),
                     devs, part2dev, part + 1)

\* The outer loop, from replica `replica` on:
\*   for replica, part2dev in enumerate(ring._replica2part2dev_id):
RECURSIVE AddReplicas(_, _, _)
AddReplicas(d2p, r, replica) ==
    IF replica \notin DOMAIN r.replica2part2dev_id THEN d2p
    ELSE AddReplicas(AddParts(d2p, r.devs, r.replica2part2dev_id[replica], 0),
                     r, replica + 1)

BuildIndex(r) == AddReplicas(NewDev2Parts, r, 0)

\* Faulty variants of OnListError: every listing error is swallowed; every
\* listing error, ENOENT too, is raised.
OnListErrorSwallow(errno) == "continue"
OnListErrorAlwaysRaise(errno) == "raise"

\* except OSError as e: continue on ENOENT, raise otherwise.
OnListError(errno) == IF errno = "ENOENT" THEN "continue" ELSE "raise"

\* if not part.isdigit(): continue
SkipEntry(name) == ~IsDigit(name)

\* Faulty variant of IsPrimary: the partition is looked up in the sets of all devices.
IsPrimaryOnAnyDevice(d2p, device_dir, part) ==
    \E k \in DOMAIN d2p : part \in d2p[k]

\* part in dev2parts[device_dir]
IsPrimary(d2p, device_dir, part) == part \in DictGet(d2p, device_dir, {})

\* primary_count[device_dir] += 1
CountPrimary(pcount, device_dir) ==
    DictSet(pcount, device_dir, DictGet(pcount, device_dir, 0) + 1)

\* Faulty variant of AddHandoff: the set is assigned, not added to.
AddHandoffReplace(ho, device_dir, part) == DictSet(ho, device_dir, {part})

\* handoffs[device_dir].add(part)
AddHandoff(ho, device_dir, part) ==
    DictSet(ho, device_dir, DictGet(ho, device_dir, {}) \cup {part})

\* Reading dev2parts[device_dir] creates the key in the defaultdict.
Touch(d, k, default) == DictSet(d, k, DictGet(d, k, default))

\* for part in parts: ..., from position i on.  st holds the three dicts and
\* the exception that ended the loop, "" when none: int(part) raises
\* ValueError for a name that isdigit accepts and int does not.
RECURSIVE ScanParts(_, _, _, _)
ScanParts(st, device_dir, listing, i) ==
    IF i > Len(listing) THEN st
    ELSE IF SkipEntry(listing[i]) THEN ScanParts(st, device_dir, listing, i + 1)
    ELSE IF IntRaises(listing[i]) THEN [st EXCEPT !.raised = "ValueError"]
    ELSE LET part == ToInt(listing[i])
             d2p == Touch(st.dev2parts, device_dir, {})
             nxt == IF IsPrimary(d2p, device_dir, part)
                    THEN [st EXCEPT !.dev2parts = d2p,
                                    !.primary_count = CountPrimary(@, device_dir)]
                    ELSE [st EXCEPT !.dev2parts = d2p,
                                    !.handoffs = AddHandoff(@, device_dir, part)]
         IN ScanParts(nxt, device_dir, listing, i + 1)

\* Faulty variant of NewPrimaryCount: the counts are kept on the check object.
NewPrimaryCountShared == primary_count

\* primary_count = defaultdict(int); handoffs = defaultdict(set)
NewPrimaryCount == EmptyDict
NewHandoffs == EmptyDict

\* sum(primary_count.values())
RECURSIVE SumValues(_)
SumValues(d) ==
    IF DOMAIN d = {} THEN 0
    ELSE LET k == CHOOSE x \in DOMAIN d : TRUE
         IN d[k] + SumValues([x \in DOMAIN d \ {k} |-> d[x]])

\* Faulty variant of SumLens: len(handoffs), the number of devices with handoffs.
SumLensCountsKeys(d) == Cardinality(DOMAIN d)

\* sum(map(len, handoffs.values()))
SumLens(d) == SumValues([k \in DOMAIN d |-> Cardinality(d[k])])

\* The contents of the device root: each entry with what listing its data
\* directory gives.
Disks ==
    { dk \in UNION { [ds -> ListOutcomes] : ds \in SUBSET DevNames } :
        SumValues([d \in DOMAIN dk |-> Cardinality(dk[d].entries)]) <= MaxEntries }

\* self._set_dimensions(dimensions, instance): the caller's tags are attached.
SetDimensions(dimensions, tags) ==
    [k \in DOMAIN dimensions \cup DOMAIN tags |->
        IF k \in DOMAIN tags THEN tags[k] ELSE dimensions[k]]

\* dimensions = {'ring': ring_name}; dimensions = self._set_dimensions(...)
Dimensions == SetDimensions([ring |-> RingName], CallerTags)

Gauge(name, value, dimensions) ==
    [name |-> name, value |-> value, dimensions |-> dimensions]

\* The two gauge calls at granularity 'server'.
ServerGauges(pcount, ho, dimensions) ==
    << Gauge("swift_handoffs.primary", SumValues(pcount), dimensions),
       Gauge("swift_handoffs.handoffs", SumLens(ho), dimensions) >>

\* tmp_dimensions = dimensions.copy(); tmp_dimensions['device'] = device
DeviceDimensions(dimensions, device) ==
    [k \in DOMAIN dimensions \cup {"device"} |->
        IF k = "device" THEN device ELSE dimensions[k]]

\* Faulty variant of ReportedDevices: only the devices that have a count are reported.
ReportedDevicesWithCounts(dirs, pcount, ho) ==
    SelectSeq(dirs, LAMBDA d : d \in DOMAIN pcount \cup DOMAIN ho)

\* The devices the 'device' granularity reports on.
ReportedDevices(dirs, pcount, ho) == dirs

\* for device in device_dirs: two gauge calls each, from position i on.
RECURSIVE DeviceGauges(_, _, _, _, _)
DeviceGauges(dirs, pcount, ho, dimensions, i) ==
    IF i > Len(dirs) THEN << >>
    ELSE LET tmp == DeviceDimensions(dimensions, dirs[i])
         IN << Gauge("swift_handoffs.primary", DictGet(pcount, dirs[i], 0), tmp),
               Gauge("swift_handoffs.handoffs",
                     Cardinality(DictGet(ho, dirs[i], {})), tmp) >>
            \o DeviceGauges(dirs, pcount, ho, dimensions, i + 1)

\* The defaultdict after every key of dirs has been read.
RECURSIVE TouchAll(_, _, _, _)
TouchAll(d, dirs, default, i) ==
    IF i > Len(dirs) THEN d
    ELSE TouchAll(Touch(d, dirs[i], default), dirs, default, i + 1)

\* ------------------------------------------------------------- invocations

NoPrev ==
    [pc |-> "none", gauges |-> {}, primary_count |-> EmptyDict,
     handoffs |-> EmptyDict, device_dirs |-> << >>]

Init ==
    /\ device_root \in {"missing", "file", "dir"}
    /\ ring_path \in {"missing", "dir", "file"}
    /\ ring_file \in IF IsFile(ring_path) THEN Rings ELSE {NoRing}
    /\ disk \in IF IsDir(device_root) THEN Disks ELSE {EmptyDisk}
    /\ instance \in [granularity : GranularityValues]
    /\ pc = "idle"
    /\ raised = ""
    /\ granularity = << >>
    /\ dev2parts = EmptyDict
    /\ primary_count = EmptyDict
    /\ handoffs = EmptyDict
    /\ device_dirs = << >>
    /\ idx = 0
    /\ ring_loaded = FALSE
    /\ listed = << >>
    /\ log = << >>
    /\ gauges = << >>
    /\ prev = NoPrev

Terminal == {"done", "returned", "raised"}

\* The collector calls check(instance); it does so again and again.
Invoke ==
    /\ pc \in Terminal \cup {"idle"}
    /\ prev' = IF pc = "idle" THEN NoPrev
               ELSE [pc |-> pc, gauges |-> { gauges[i] : i \in DOMAIN gauges },
                     primary_count |-> primary_count, handoffs |-> handoffs,
                     device_dirs |-> device_dirs]
    /\ pc' = "config"
    /\ raised' = ""
    /\ ring_loaded' = FALSE
    /\ listed' = << >>
    /\ log' = << >>
    /\ gauges' = << >>
    /\ UNCHANGED << env, locals >>

\* device_root does not exist or is no directory: log and return None.
DevicesInvalid ==
    /\ pc = "config"
    /\ ~Exists(device_root) \/ ~IsDir(device_root)
    /\ log' = Append(log, "devices must exist or be a directory")
    /\ pc' = "returned"
    /\ UNCHANGED << env, raised, locals, ring_loaded, listed, gauges, prev >>

\* ring_path does not exist or is no file: log and return None.
RingInvalid ==
    /\ pc = "config"
    /\ ~(~Exists(device_root) \/ ~IsDir(device_root))
    /\ ~Exists(ring_path) \/ ~IsFile(ring_path)
    /\ log' = Append(log, "ring must exist")
    /\ pc' = "returned"
    /\ UNCHANGED << env, raised, locals, ring_loaded, listed, gauges, prev >>

ConfigPathsValid ==
    /\ ~(~Exists(device_root) \/ ~IsDir(device_root))
    /\ ~(~Exists(ring_path) \/ ~IsFile(ring_path))

\* instance.get('granularity', 'server')
GranularityOption == InstanceGet(instance, "granularity", Str(ServerStr))

\* .lower() of a value that is no string raises AttributeError.
GranularityNotString ==
    /\ pc = "config"
    /\ ConfigPathsValid
    /\ GranularityOption.kind # "str"
    /\ pc' = "raised"
    /\ raised' = "AttributeError"
    /\ UNCHANGED << env, locals, outputs, prev >>

\* granularity not in ('server', 'device'): log and return None.
GranularityInvalid ==
    /\ pc = "config"
    /\ ConfigPathsValid
    /\ GranularityOption.kind = "str"
    /\ \E lowered \in { Lower(GranularityOption.val) } :
          /\ lowered \notin {ServerStr, DeviceStr}
          /\ granularity' = lowered
    /\ log' = Append(log, "granularity must be either 'server' or 'drive'")
    /\ pc' = "returned"
    /\ UNCHANGED << env, raised, dev2parts, primary_count, handoffs, device_dirs,
                    idx, ring_loaded, listed, gauges, prev >>

ConfigValid ==
    /\ pc = "config"
    /\ ConfigPathsValid
    /\ GranularityOption.kind = "str"
    /\ \E lowered \in { Lower(GranularityOption.val) } :
          /\ lowered \in {ServerStr, DeviceStr}
          /\ granularity' = lowered
    /\ pc' = "load"
    /\ UNCHANGED << env, raised, dev2parts, primary_count, handoffs, device_dirs,
                    idx, outputs, prev >>

\* ring, ring_name, datadir = get_ring_and_datadir(ring_path), then the index.
LoadRing ==
    /\ pc = "load"
    /\ ring_loaded' = TRUE
    /\ dev2parts' = BuildIndex(ring_file)
    /\ pc' = "listroot"
    /\ UNCHANGED << env, raised, granularity, primary_count, handoffs, device_dirs,
                    idx, listed, log, gauges, prev >>

\* primary_count, handoffs = ...; device_dirs = os.listdir(device_root)
ListDeviceRoot ==
    /\ pc = "listroot"
    /\ primary_count' = NewPrimaryCount
    /\ handoffs' = NewHandoffs
    /\ \E order \in Perms(DOMAIN disk) : device_dirs' = order
    /\ idx' = 1
    /\ pc' = "scan"
    /\ UNCHANGED << env, raised, granularity, dev2parts, outputs, prev >>

PartsDir(device_dir) == << "/srv/node", device_dir, DataDir >>

InScan == pc = "scan" /\ idx <= Len(device_dirs)

\* os.listdir(parts_dir) fails with ENOENT: continue with the next device.
ScanMissing ==
    /\ InScan
    /\ disk[device_dirs[idx]].kind # "ok"
    /\ OnListError(disk[device_dirs[idx]].kind) = "continue"
    /\ listed' = Append(listed, PartsDir(device_dirs[idx]))
    /\ idx' = idx + 1
    /\ UNCHANGED << env, pc, raised, granularity, dev2parts, primary_count, handoffs,
                    device_dirs, ring_loaded, log, gauges, prev >>

\* os.listdir(parts_dir) fails with another errno: the OSError leaves check.
ScanError ==
    /\ InScan
    /\ disk[device_dirs[idx]].kind # "ok"
    /\ OnListError(disk[device_dirs[idx]].kind) = "raise"
    /\ listed' = Append(listed, PartsDir(device_dirs[idx]))
    /\ pc' = "raised"
    /\ raised' = "OSError"
    /\ UNCHANGED << env, locals, ring_loaded, log, gauges, prev >>

\* The inner loop over a listing of device_dirs[idx] in the given order.
Classified(order) ==
    ScanParts([dev2parts |-> dev2parts, primary_count |-> primary_count,
               handoffs |-> handoffs, raised |-> ""],
              device_dirs[idx], order, 1)

\* os.listdir(parts_dir) returns the entries in some order; classify them.
ScanDevice ==
    /\ InScan
    /\ disk[device_dirs[idx]].kind = "ok"
    /\ \E order \in Perms(disk[device_dirs[idx]].entries) :
         \E st \in { Classified(order) } :
            /\ st.raised = ""
            /\ dev2parts' = st.dev2parts
            /\ primary_count' = st.primary_count
            /\ handoffs' = st.handoffs
    /\ listed' = Append(listed, PartsDir(device_dirs[idx]))
    /\ idx' = idx + 1
    /\ UNCHANGED << env, pc, raised, granularity, device_dirs, ring_loaded, log,
                    gauges, prev >>

\* int(part) raises in the inner loop: the ValueError leaves check, after the
\* entries listed before it have been classified.
ScanBadInt ==
    /\ InScan
    /\ disk[device_dirs[idx]].kind = "ok"
    /\ \E order \in Perms(disk[device_dirs[idx]].entries) :
         \E st \in { Classified(order) } :
            /\ st.raised # ""
            /\ raised' = st.raised
            /\ dev2parts' = st.dev2parts
            /\ primary_count' = st.primary_count
            /\ handoffs' = st.handoffs
    /\ listed' = Append(listed, PartsDir(device_dirs[idx]))
    /\ pc' = "raised"
    /\ UNCHANGED << env, granularity, device_dirs, idx, ring_loaded, log,
                    gauges, prev >>

ScanOver == pc = "scan" /\ idx > Len(device_dirs)

\* if granularity == 'server': two gauges with the totals.
EmitServer ==
    /\ ScanOver
    /\ granularity = ServerStr
    /\ gauges' = gauges \o ServerGauges(primary_count, handoffs, Dimensions)
    /\ pc' = "done"
    /\ UNCHANGED << env, raised, locals, ring_loaded, listed, log, prev >>

\* else: two gauges for every entry of device_dirs.
EmitDevice ==
    /\ ScanOver
    /\ granularity # ServerStr
    /\ LET dirs == ReportedDevices(device_dirs, primary_count, handoffs)
       IN /\ gauges' = gauges \o DeviceGauges(dirs, primary_count, handoffs, Dimensions, 1)
          /\ primary_count' = TouchAll(primary_count, dirs, 0, 1)
          /\ handoffs' = TouchAll(handoffs, dirs, {}, 1)
    /\ pc' = "done"
    /\ UNCHANGED << env, raised, granularity, dev2parts, device_dirs, idx,
                    ring_loaded, listed, log, prev >>

Next ==
    \/ Invoke
    \/ DevicesInvalid
    \/ RingInvalid
    \/ GranularityNotString
    \/ GranularityInvalid
    \/ ConfigValid
    \/ LoadRing
    \/ ListDeviceRoot
    \/ ScanMissing
    \/ ScanError
    \/ ScanDevice
    \/ ScanBadInt
    \/ EmitServer
    \/ EmitDevice

Spec == Init /\ [][Next]_vars

\* -------------------------------------------------------------- properties

\* The device loop of the current invocation has started.
InDeviceLoop ==
    pc \in {"scan", "done"} \/ (pc = "raised" /\ raised \in {"OSError", "ValueError"})

\* The entries of the device root whose data directory has been listed.
ListedDirs == IF InDeviceLoop THEN { listed[i][2] : i \in DOMAIN listed } ELSE {}

\* The entries whose listing succeeded and whose entries have all been
\* classified (the inner loop was not left by an exception).
ClassifiedDirs ==
    { d \in ListedDirs :
        /\ disk[d].kind = "ok"
        /\ ~(pc = "raised" /\ raised = "ValueError" /\ d = device_dirs[idx]) }

NumericEntries(d) == { n \in disk[d].entries : IsDigit(n) }

\* The device names of the ring's device table.
RingDeviceNames == { ring_file.devs[id].device : id \in DOMAIN ring_file.devs }

\* The partitions the ring assigns to a device of the given name.
AssignedTo(name) ==
    { p \in Parts : \E r \in Replicas :
        ring_file.devs[ring_file.replica2part2dev_id[r][p]].device = name }

\* C1: after a device directory has been scanned, primary_count[d] +
\* len(handoffs[d]) is the number of numeric-named entries of its data
\* directory, also when two names denote the same integer.
C1_CountsCoverNumericEntries ==
    \A d \in ClassifiedDirs :
        DictGet(primary_count, d, 0) + Cardinality(DictGet(handoffs, d, {}))
            = Cardinality(NumericEntries(d))

\* C2: a numeric entry counts as primary exactly when its partition is in the
\* index set of its device directory and is a handoff otherwise: no handoff
\* is in the index set, every primary is, and a device directory that is no
\* device of the ring has only handoffs.
C2_ClassifiedByIndex ==
    \A d \in ClassifiedDirs :
        LET index == DictGet(dev2parts, d, {})
        IN /\ DictGet(primary_count, d, 0)
                = Cardinality({ n \in NumericEntries(d) : ToInt(n) \in index })
           /\ DictGet(handoffs, d, {})
                = { ToInt(n) : n \in { m \in NumericEntries(d) : ToInt(m) \notin index } }
           /\ DictGet(handoffs, d, {}) \cap index = {}
           /\ d \notin RingDeviceNames =>
                /\ DictGet(primary_count, d, 0) = 0
                /\ DictGet(handoffs, d, {}) = { ToInt(n) : n \in NumericEntries(d) }

\* A device directory with a primary and a handoff partition has been scanned.
C2_Witness ==
    \E d \in ClassifiedDirs :
        /\ DictGet(primary_count, d, 0) = 1
        /\ DictGet(handoffs, d, {}) = {0}
        /\ disk[d].entries = { <<48>>, <<49>> }

\* C3: once the index is built, every partition is in the index sets of
\* exactly replicaCount devices.
C3_PartitionInReplicaCountSets ==
    pc = "listroot" =>
        \A p \in Parts :
            Cardinality({ k \in DOMAIN dev2parts : p \in dev2parts[k] })
                = Cardinality(Replicas)

\* C4: an invocation emits only after every device directory has been
\* scanned, and a listing error other than ENOENT leaves check as an
\* exception, is the last listing made, and leaves no gauge emitted.
C4_EmitAllOrNothing ==
    /\ gauges # << >> =>
        /\ pc = "done"
        /\ Len(listed) = Len(device_dirs)
        /\ \A d \in DOMAIN disk : d \in ListedDirs /\ disk[d].kind # "EOTHER"
    /\ pc = "raised" => gauges = << >>
    /\ InDeviceLoop =>
        \A i \in DOMAIN listed :
            disk[listed[i][2]].kind = "EOTHER" =>
                /\ i = Len(listed)
                /\ pc = "raised"
                /\ raised = "OSError"
                /\ gauges = << >>

\* A listing error after a device has been classified: counts exist, no gauge.
C4_Witness ==
    /\ pc = "raised"
    /\ raised = "OSError"
    /\ Len(listed) = 2
    /\ \E d \in ClassifiedDirs : DictGet(primary_count, d, 0) >= 1
    /\ gauges = << >>

\* The configuration errors: a device root that is no directory, a ring path
\* that is no file, a granularity that is neither 'server' nor 'device' (in
\* any case of the letters).
ConfigurationError ==
    \/ ~IsDir(device_root)
    \/ ~IsFile(ring_path)
    \/ GranularityOption.kind # "str"
    \/ Lower(GranularityOption.val) \notin { ServerStr, DeviceStr }

\* C5: on a configuration error check logs an error, returns without raising,
\* emits nothing, loads no ring and lists no directory.
C5_ConfigErrorReported ==
    ConfigurationError /\ pc \notin {"idle", "config"} =>
        /\ pc = "returned"
        /\ Len(log) = 1
        /\ gauges = << >>
        /\ ~ring_loaded
        /\ listed = << >>

\* C6: at granularity 'server' a completed check emits one primary gauge with
\* the sum of primary_count over the device directories and one handoffs
\* gauge with the sum of the sizes of the handoff sets, tagged with the ring
\* name and the caller's tags and with no device.
C6_ServerTotals ==
    pc = "done" /\ granularity = ServerStr =>
        /\ Len(gauges) = 2
        /\ gauges[1].name = "swift_handoffs.primary"
        /\ gauges[1].value
             = SumValues([d \in DOMAIN disk |-> DictGet(primary_count, d, 0)])
        /\ gauges[2].name = "swift_handoffs.handoffs"
        /\ gauges[2].value
             = SumValues([d \in DOMAIN disk |-> Cardinality(DictGet(handoffs, d, {}))])
        /\ \A i \in DOMAIN gauges :
             /\ DOMAIN gauges[i].dimensions = {"ring"} \cup DOMAIN CallerTags
             /\ gauges[i].dimensions["ring"] = RingName
             /\ \A k \in DOMAIN CallerTags : gauges[i].dimensions[k] = CallerTags[k]

\* Server totals over two device directories, one of them with two handoffs.
C6_Witness ==
    /\ pc = "done"
    /\ granularity = ServerStr
    /\ Len(device_dirs) = 2
    /\ \E d \in ClassifiedDirs : Cardinality(DictGet(handoffs, d, {})) = 2
    /\ gauges[2].value = 2

GaugesOf(name, device) ==
    { i \in DOMAIN gauges :
        /\ gauges[i].name = name
        /\ "device" \in DOMAIN gauges[i].dimensions
        /\ gauges[i].dimensions["device"] = device }

\* C7: at granularity 'device' a completed check emits, for every entry of
\* the device root, one primary and one handoffs gauge with that device's
\* counts and its name as the device tag: twice as many gauges as entries.
C7_DeviceGaugesPerEntry ==
    pc = "done" /\ granularity = DeviceStr =>
        /\ Len(gauges) = 2 * Cardinality(DOMAIN disk)
        /\ \A d \in DOMAIN disk :
             /\ Cardinality(GaugesOf("swift_handoffs.primary", d)) = 1
             /\ Cardinality(GaugesOf("swift_handoffs.handoffs", d)) = 1
             /\ \A i \in GaugesOf("swift_handoffs.primary", d) :
                  gauges[i].value = DictGet(primary_count, d, 0)
             /\ \A i \in GaugesOf("swift_handoffs.handoffs", d) :
                  gauges[i].value = Cardinality(DictGet(handoffs, d, {}))
        /\ \A i \in DOMAIN gauges :
             /\ "device" \in DOMAIN gauges[i].dimensions
             /\ gauges[i].dimensions["device"] \in DOMAIN disk

\* Four gauges for two entries, one without a data directory, one with data.
C7_Witness ==
    /\ pc = "done"
    /\ granularity = DeviceStr
    /\ Len(gauges) = 4
    /\ \E d \in DOMAIN disk : disk[d].kind = "ENOENT"
    /\ \E d \in ClassifiedDirs : DictGet(primary_count, d, 0) >= 1

\* C8: a device directory whose data directory does not exist raises nothing
\* and has primary_count 0 and no handoffs; the scan goes on, and the other
\* device directories have the counts their own entries give.
C8_MissingDataDirSkipped ==
    InDeviceLoop =>
        /\ \A i \in DOMAIN listed :
             disk[listed[i][2]].kind = "ENOENT" =>
                /\ DictGet(primary_count, listed[i][2], 0) = 0
                /\ DictGet(handoffs, listed[i][2], {}) = {}
                /\ i = Len(listed) => pc # "raised"
                /\ idx > i
        /\ pc = "done" => ListedDirs = DOMAIN disk
        /\ \A d \in ClassifiedDirs :
             /\ DictGet(primary_count, d, 0)
                  = Cardinality({ n \in NumericEntries(d) : ToInt(n) \in AssignedTo(d) })
             /\ Cardinality(DictGet(handoffs, d, {}))
                  = Cardinality({ ToInt(n) : n \in
                        { m \in NumericEntries(d) : ToInt(m) \notin AssignedTo(d) } })

\* The first device has no data directory, the one scanned after it has data.
C8_Witness ==
    /\ pc = "done"
    /\ Len(listed) = 2
    /\ disk[listed[1][2]].kind = "ENOENT"
    /\ DictGet(primary_count, listed[2][2], 0) >= 1

\* C9: two completed invocations over the same ring and disk, whatever the
\* orders of their listings, give every device the same primary_count and
\* handoffs and the same server totals.
C9_OrderIndependent ==
    pc = "done" /\ prev.pc = "done" =>
        /\ \A d \in DOMAIN disk :
             /\ DictGet(primary_count, d, 0) = DictGet(prev.primary_count, d, 0)
             /\ DictGet(handoffs, d, {}) = DictGet(prev.handoffs, d, {})
        /\ SumValues(primary_count) = SumValues(prev.primary_count)
        /\ SumLens(handoffs) = SumLens(prev.handoffs)

\* Two completed invocations that scanned the devices in different orders.
C9_Witness ==
    /\ pc = "done"
    /\ prev.pc = "done"
    /\ Len(device_dirs) = 2
    /\ prev.device_dirs # device_dirs
    /\ \A d \in DOMAIN disk : disk[d].kind = "ok" /\ NumericEntries(d) # {}

\* C10: a second invocation over the same ring and disk emits the same values
\* as the first, and starts from an index, counts and handoff sets of its own.
C10_Idempotent ==
    /\ pc = "done" /\ prev.pc = "done" =>
         { gauges[i] : i \in DOMAIN gauges } = prev.gauges
    /\ pc = "listroot" =>
         \A k \in DOMAIN dev2parts : k \in RingDeviceNames /\ dev2parts[k] # {}
    /\ pc = "scan" /\ idx = 1 => primary_count = EmptyDict /\ handoffs = EmptyDict

\* A second completed invocation that emitted a count that is not zero.
C10_Witness ==
    /\ pc = "done"
    /\ prev.pc = "done"
    /\ \E i \in DOMAIN gauges : gauges[i].value >= 1
    /\ \E g \in prev.gauges : g.value >= 1

====
